---- MODULE Spec2Model ----
(***************************************************************************)
(* Model of the solar-system rig builder:                                  *)
(*   src/blender/scripts/SolarSystemOrbits.py  (builders, helpers)         *)
(*   src/blender/scripts/ImportPlanets.py      (catalog, teardown, driver) *)
(*   src/blender/scripts/AddObjectScript.py    (sphere mesh and object)    *)
(* and of the batch download loop of src/query_gaia_solar_system.py.       *)
(*                                                                         *)
(* Numbers are fixed point.  Scales and flattening are in units of 1/Res,  *)
(* eccentricity in units of 1/EccDen, degrees in tenths, hours in eighths, *)
(* radii and ring ratios in tenths, angles in milliradians.                *)
(***************************************************************************)
EXTENDS Integers, Sequences, FiniteSets, TLC

VARIABLES catalog, teardown, data, objs, colls, mats, pc, idx, runs, err,
          bundles, snap, moon, tm, gaia

vars == <<catalog, teardown, data, objs, colls, mats, pc, idx, runs, err,
          bundles, snap, moon, tm, gaia>>

----------------------------------------------------------------------------
(* Bounds of the model *)
NPlanets    == 2      \* catalog entries after the Sun
MaxRebuilds == 2      \* runs of the driver script
MaxSuffix   == 3      \* largest ".00n" suffix the name uniquifier may need
Res         == 1000   \* fixed-point resolution of scales and flattening
EccDen      == 10     \* eccentricity is n / EccDen
MaxA        == 6      \* largest semi-major axis of the geometry harness
MaxHours    == 60     \* largest |hours| (eighths) of the temporal harness

(* Program constants *)
EARTH_DAY_FRAMES       == 120
EARTH_YEAR_FRAMES      == 1200
DRIVER_YEAR_FRAMES     == 1800
FLOOR_DAY_FRAMES       == 10
FLOOR_YEAR_FRAMES      == 60

----------------------------------------------------------------------------
(* Arithmetic helpers *)
Abs(x) == IF x < 0 THEN -x ELSE x
Max(x, y) == IF x >= y THEN x ELSE y
Min(x, y) == IF x <= y THEN x ELSE y

\* math.sqrt on a fixed-point argument x / (Res*Res): the result r / Res
ISqrt(x) == CHOOSE r \in 0..Res : r * r <= x /\ x < (r + 1) * (r + 1)

\* math.radians: tenths of a degree -> milliradians
Radians(d10) == (d10 * 31416) \div 18000

TwoPi == 6283

----------------------------------------------------------------------------
(* Temporal mapper *)

\* a variant that drops abs()
frames_for_day_noabs(h8) ==
    Max(FLOOR_DAY_FRAMES, (EARTH_DAY_FRAMES * h8) \div 192)

\* a variant that rounds half up instead of truncating
frames_for_day_round(h8) ==
    Max(FLOOR_DAY_FRAMES, (2 * EARTH_DAY_FRAMES * Abs(h8) + 192) \div 384)

\* max(10, int(EARTH_DAY_FRAMES * (abs(hours)/24.0))), hours in eighths.
\* On the eighths grid below 49 hours, and on the catalog periods used here,
\* the double-precision product truncates to the same integer as the exact one.
frames_for_day(h8) ==
    Max(FLOOR_DAY_FRAMES, (EARTH_DAY_FRAMES * Abs(h8)) \div 192)

\* a variant with the comparison off by one
spin_dir_mut(h8) == IF h8 <= 0 THEN -1 ELSE 1

spin_dir(h8) == IF h8 < 0 THEN -1 ELSE 1

\* a variant without the floor
year_frames_nofloor(y1000) == (DRIVER_YEAR_FRAMES * y1000) \div 3000

\* max(60, int(EARTH_YEAR_FRAMES * years / 3)), years in thousandths
year_frames(y1000) ==
    Max(FLOOR_YEAR_FRAMES, (DRIVER_YEAR_FRAMES * y1000) \div 3000)

----------------------------------------------------------------------------
(* Names.  An object name is prefix + body + optional ".00n" suffix. *)
Name(pre, body) == [pre |-> pre, body |-> body, n |-> 0]
NONE == Name("<none>", "")

\* a data block (mesh, curve, light or image): its type, the object or
\* material it was made for, and the run that made it
Block(kind, owner, g) == [kind |-> kind, owner |-> owner, gen |-> g]
NOBLOCK == Block("NONE", NONE, 0)

BodyName(i) == <<"Mercury", "Venus", "Earth", "Mars",
                 "Jupiter", "Saturn", "Uranus", "Neptune">>[i]

\* Blender's unique-name rule for a new or renamed object
UniqueName(os, req) ==
    IF req \notin DOMAIN os THEN req
    ELSE [req EXCEPT !.n =
            CHOOSE m \in 1..MaxSuffix :
                /\ [req EXCEPT !.n = m] \notin DOMAIN os
                /\ \A k \in 1..(m - 1) : [req EXCEPT !.n = k] \in DOMAIN os]

\* a fresh object as bpy.data.objects.new / a primitive operator leaves it
NewObj(kind, coll) ==
    [kind |-> kind, parent |-> NONE, loc |-> <<0, 0, 0>>,
     rot |-> <<0, 0, 0>>, rotmode |-> "XYZ", axisrots |-> <<>>,
     scale |-> <<Res, Res, Res>>, users |-> {coll}, hidden |-> FALSE,
     radius |-> 0, ring |-> <<0, 0>>, material |-> NONE,
     follow |-> NONE, path_duration |-> 0, eval_time |-> 0,
     path |-> <<>>, spin |-> <<>>, data |-> NOBLOCK, gen |-> 0]

\* an animation track: keyframes <<frame, value>>, interpolation, CYCLES modifiers
\* modes lists the <<mode_before, mode_after>> of each CYCLES modifier
Track(prop, keys) ==
    [prop |-> prop, keys |-> keys, linear |-> FALSE, cycles |-> 0, modes |-> <<>>]

----------------------------------------------------------------------------
(* Catalog *)
\* texture is "ok" (a file that loads), "missing" (a path that does not load)
\* or "none" (no texture key)
Cfg(a, e, flat, h8, y1000, rings, r10, tilt10, tex) ==
    [orbit_radius |-> a, ecc |-> e, flattening |-> flat, hours |-> h8,
     day_frames |-> frames_for_day(h8), spin_dir |-> spin_dir(h8),
     year_frames |-> year_frames(y1000), with_rings |-> rings,
     rings_inner |-> 20, rings_outer |-> 33, radius |-> r10,
     tilt_deg |-> tilt10, inc |-> 70, asc |-> 483, peri |-> 774,
     texture |-> tex]

\* representative entries: three valid ones and the four kinds of invalid
\* orbital elements (e = 1, e > 1, a = 0, a < 0)
CfgPool ==
    { Cfg(20, 0, 3, 191, 1000, FALSE, 10, 234, "ok"),
      Cfg(30, 6, 98, 85, 29457, TRUE, 17, 267, "missing"),
      Cfg(14, 1, 300, -46660, 615, FALSE, 9, 1774, "ok"),
      Cfg(8, EccDen, 0, 11260, 241, FALSE, 3, 0, "ok"),
      Cfg(8, EccDen + 1, 0, 11260, 241, FALSE, 3, 0, "missing"),
      Cfg(0, 2, 0, 197, 1881, TRUE, 5, 252, "ok"),
      Cfg(-5, 2, -10, 0, 50, FALSE, 5, 252, "none") }

SunCfg == [radius |-> 30, tilt_deg |-> 72, location |-> <<0, 0, 0>>,
           texture |-> "ok"]

\* the Sun entry as written, and one without tilt whose texture file is absent
SunPool == {SunCfg, [SunCfg EXCEPT !.tilt_deg = 0, !.texture = "missing"]}

IsSun(i) == i = 1
Body(i) == IF IsSun(i) THEN "Sun" ELSE BodyName(i - 1)

----------------------------------------------------------------------------
(* Host scene *)
SOLAR == "Solar System"

ForeignPool ==
    { [name |-> Name("", "Camera"), hidden |-> FALSE],
      [name |-> Name("Orbit-", BodyName(1)), hidden |-> TRUE],
      [name |-> Name("Planet-", "Pluto"), hidden |-> FALSE] }

SceneOf(fs) ==
    [nm \in {f.name : f \in fs} |->
        [NewObj("EMPTY", "Scene") EXCEPT
            !.hidden = (CHOOSE f \in fs : f.name = nm).hidden]]

Topology(os) == {<<nm, os[nm].parent>> : nm \in DOMAIN os}

\* a variant that selects mesh objects only
SelectAll_meshes(os) == {nm \in DOMAIN os : ~os[nm].hidden /\ os[nm].kind = "MESH"}

\* bpy.ops.object.select_all(action='SELECT'): every visible object
SelectAll(os) == {nm \in DOMAIN os : ~os[nm].hidden}

SunLike == {"Sun", "SunInnerLight"}
StartsWith(nm, p) ==
    \/ nm.pre = p
    \/ nm.pre = "" /\ p = "Sun" /\ nm.body \in SunLike

\* a variant that leaves out the orbit controllers
Prefixes_short == {"Planet-", "Orbit-", "SpinCtrl-", "Rings-", "Moon-", "Sun"}

Prefixes == {"Planet-", "Orbit-", "SpinCtrl-", "OrbitCtrl-", "Rings-", "Moon-", "Sun"}

\* a variant whose pattern matches every name
SelectPattern_all(os) == {nm \in DOMAIN os : ~os[nm].hidden}

\* bpy.ops.object.select_pattern for every prefix, on visible objects
SelectPattern(os) ==
    {nm \in DOMAIN os : ~os[nm].hidden /\ \E p \in Prefixes : StartsWith(nm, p)}

\* a variant that deletes only the members of the "Solar System" collection
Delete_linked(os, sel) ==
    LET gone == {nm \in sel : "Solar System" \in os[nm].users}
    IN  [nm \in DOMAIN os \ gone |->
            [os[nm] EXCEPT !.parent = IF @ \in gone THEN NONE ELSE @,
                           !.follow = IF @ \in gone THEN NONE ELSE @]]

\* bpy.ops.object.delete: selected objects go, references to them are cleared
Delete(os, sel) ==
    [nm \in DOMAIN os \ sel |->
        [os[nm] EXCEPT !.parent = IF @ \in sel THEN NONE ELSE @,
                       !.follow = IF @ \in sel THEN NONE ELSE @]]

UsedMats(os) == {os[nm].material : nm \in DOMAIN os} \ {NONE}

\* link_to_collection: unlink from every collection, link to "Solar System"
link_to_collection(os, nm) == [os EXCEPT ![nm].users = {SOLAR}]

----------------------------------------------------------------------------
(* Data blocks and materials.  data maps a block to its material slot; mats
   maps a material name to what its node tree carries: the colour input
   ("color", "tint" or "default") and the image of its texture node. *)

Restrict(f, S) == [x \in S |-> f[x]]

\* block.users of a mesh, curve or light: the objects whose data it is
ObjUsers(os, k) == Cardinality({nm \in DOMAIN os : os[nm].data = k})

\* block.users of an image: the texture nodes that show it
ImageUsers(ms, k) == Cardinality({m \in DOMAIN ms : ms[m].image = k})

BlockUsers(os, ms, k) ==
    IF k.kind = "IMAGE" THEN ImageUsers(ms, k) ELSE ObjUsers(os, k)

\* block.users of a material: the meshes that have it in a slot
MatUsers(d, m) == Cardinality({k \in DOMAIN d : d[k].material = m})

\* clear_scene, lines 29-31: meshes without users are removed
RemoveUnusedMeshes(os, d) ==
    Restrict(d, {k \in DOMAIN d : ~(k.kind = "MESH" /\ ObjUsers(os, k) = 0)})

\* delete_unused_materials, and clear_scene lines 32-34
delete_unused_materials(ms, d) ==
    Restrict(ms, {m \in DOMAIN ms : MatUsers(d, m) > 0})

\* delete_unused_images
delete_unused_images(ms, d) ==
    Restrict(d, {k \in DOMAIN d : ~(k.kind = "IMAGE" /\ ImageUsers(ms, k) = 0)})

\* a variant without the try/except around images.load
make_planet_material_raise(ms, d, name, tex, g) ==
    LET mat == Name("Material-", name)
        img == Block("IMAGE", mat, g)
    IN  IF tex = "ok"
        THEN [mats |-> (mat :> [base |-> "color", image |-> img]) @@ ms,
              data |-> d @@ (img :> [material |-> NONE]),
              mat |-> mat, err |-> "none"]
        ELSE [mats |-> (mat :> [base |-> "color", image |-> NOBLOCK]) @@ ms,
              data |-> d, mat |-> mat,
              err |-> IF tex = "missing" THEN "RuntimeError" ELSE "none"]

\* make_planet_material: the material is fetched by name or created, its
\* nodes are cleared, Base Color is set; the texture node is added only
\* when images.load returns, and a failed load is swallowed
make_planet_material(ms, d, name, tex, g) ==
    LET mat == Name("Material-", name)
        img == Block("IMAGE", mat, g)
    IN  IF tex = "ok"
        THEN [mats |-> (mat :> [base |-> "color", image |-> img]) @@ ms,
              data |-> d @@ (img :> [material |-> NONE]),
              mat |-> mat, err |-> "none"]
        ELSE [mats |-> (mat :> [base |-> "color", image |-> NOBLOCK]) @@ ms,
              data |-> d, mat |-> mat, err |-> "none"]

\* make_transparent_sun_material: the emission colour is the tint unless the
\* texture file exists and loads
make_transparent_sun_material(ms, d, tex, g) ==
    LET mat == Name("Material-", "Sun")
        img == Block("IMAGE", mat, g)
    IN  IF tex = "ok"
        THEN [mats |-> (mat :> [base |-> "default", image |-> img]) @@ ms,
              data |-> d @@ (img :> [material |-> NONE]),
              mat |-> mat, err |-> "none"]
        ELSE [mats |-> (mat :> [base |-> "tint", image |-> NOBLOCK]) @@ ms,
              data |-> d, mat |-> mat, err |-> "none"]

\* make_ring_material
make_ring_material(ms, mat) ==
    (mat :> [base |-> "default", image |-> NOBLOCK]) @@ ms

\* obj.data.materials.clear(); obj.data.materials.append(mat)
SetMaterial(os, d, nm, mat) ==
    [objs |-> [os EXCEPT ![nm].material = mat],
     data |-> [d EXCEPT ![os[nm].data].material = mat]]

----------------------------------------------------------------------------
(* Animation helpers *)

\* keyframe_insert: a key on an existing frame is replaced
InsertKey(keys, f, v) ==
    IF \E i \in 1..Len(keys) : keys[i][1] = f
    THEN [i \in 1..Len(keys) |-> IF keys[i][1] = f THEN <<f, v>> ELSE keys[i]]
    ELSE Append(keys, <<f, v>>)

\* a variant that leaves the interpolation of the keyframes alone
_linear_and_cycle_bezier(t) ==
    [t EXCEPT !.cycles = @ + 1, !.modes = Append(@, <<"REPEAT", "REPEAT">>)]

\* _linear_and_cycle: every keyframe LINEAR, one new CYCLES modifier that
\* repeats before and after
_linear_and_cycle(t) ==
    [t EXCEPT !.linear = TRUE, !.cycles = @ + 1,
              !.modes = Append(@, <<"REPEAT", "REPEAT">>)]

\* value of a finished two-key cyclic linear track at frame f
EvalTrack(t, f) ==
    LET k1 == t.keys[1]
        k2 == t.keys[Len(t.keys)]
        n  == k2[1] - k1[1]
    IN  IF n <= 0 \/ t.cycles = 0 THEN k1[2]
        ELSE k1[2] + ((k2[2] - k1[2]) * ((f - k1[1]) % n)) \div n

\* scene.frame_set: animated properties take their value at frame f
FrameSet(os, f) ==
    [nm \in DOMAIN os |->
        [os[nm] EXCEPT
            !.rot[3] = IF os[nm].spin = <<>> THEN @
                       ELSE EvalTrack(os[nm].spin[1], f),
            !.eval_time = IF os[nm].path = <<>> THEN @
                          ELSE EvalTrack(os[nm].path[1], f)]]

----------------------------------------------------------------------------
(* Geometry *)

\* a variant that turns about Z by the argument of periapsis first and by the
\* ascending-node longitude last
add_orbit_curve_swapped(os, req, a, e, inc, peri, asc) ==
    LET nm    == UniqueName(os, req)
        made  == [NewObj("CURVE", "Active") EXCEPT
                    !.radius = a, !.path_duration = EARTH_YEAR_FRAMES]
        s     == ISqrt(((EccDen * EccDen - e * e) * Res * Res) \div (EccDen * EccDen))
        b     == a * s
        done  == [made EXCEPT
                    !.scale[2] = b \div a,
                    !.rotmode = "XYZ",
                    !.rot = <<0, 0, 0>>,
                    !.axisrots = <<<<"Z", Radians(peri)>>,
                                   <<"X", Radians(inc)>>,
                                   <<"Z", Radians(asc)>>>>]
    IN  IF e > EccDen
        THEN [objs |-> os @@ (nm :> made), curve |-> nm, err |-> "ValueError"]
        ELSE IF a = 0
        THEN [objs |-> os @@ (nm :> made), curve |-> nm, err |-> "ZeroDivisionError"]
        ELSE [objs |-> os @@ (nm :> done), curve |-> nm, err |-> "none"]

\* a variant that takes sqrt(1 - e) instead of sqrt(1 - e**2)
add_orbit_curve_nosquare(os, req, a, e, inc, peri, asc) ==
    LET nm    == UniqueName(os, req)
        made  == [NewObj("CURVE", "Active") EXCEPT
                    !.radius = a, !.path_duration = EARTH_YEAR_FRAMES]
        s     == ISqrt(((EccDen - e) * Res * Res) \div EccDen)
        b     == a * s
        done  == [made EXCEPT
                    !.scale[2] = b \div a,
                    !.rotmode = "XYZ",
                    !.rot = <<0, 0, 0>>,
                    !.axisrots = <<<<"Z", Radians(asc)>>,
                                   <<"X", Radians(inc)>>,
                                   <<"Z", Radians(peri)>>>>]
    IN  IF e > EccDen
        THEN [objs |-> os @@ (nm :> made), curve |-> nm, err |-> "ValueError"]
        ELSE IF a = 0
        THEN [objs |-> os @@ (nm :> made), curve |-> nm, err |-> "ZeroDivisionError"]
        ELSE [objs |-> os @@ (nm :> done), curve |-> nm, err |-> "none"]

\* add_orbit_curve.  The circle is created and named first; math.sqrt raises
\* ValueError for e > 1 and b / a raises ZeroDivisionError for a = 0, both
\* after the curve object exists.
add_orbit_curve(os, req, a, e, inc, peri, asc) ==
    LET nm    == UniqueName(os, req)
        made  == [NewObj("CURVE", "Active") EXCEPT
                    !.radius = a, !.path_duration = EARTH_YEAR_FRAMES]
        s     == ISqrt(((EccDen * EccDen - e * e) * Res * Res) \div (EccDen * EccDen))
        b     == a * s
        done  == [made EXCEPT
                    !.scale[2] = b \div a,
                    !.rotmode = "XYZ",
                    !.rot = <<0, 0, 0>>,
                    !.axisrots = <<<<"Z", Radians(asc)>>,
                                   <<"X", Radians(inc)>>,
                                   <<"Z", Radians(peri)>>>>]
    IN  IF e > EccDen
        THEN [objs |-> os @@ (nm :> made), curve |-> nm, err |-> "ValueError"]
        ELSE IF a = 0
        THEN [objs |-> os @@ (nm :> made), curve |-> nm, err |-> "ZeroDivisionError"]
        ELSE [objs |-> os @@ (nm :> done), curve |-> nm, err |-> "none"]

\* a variant without the clamp
set_oblateness_noclamp(os, nm, flattening) ==
    LET f == flattening
    IN  IF f > 0
        THEN [os EXCEPT ![nm].scale[3] = (@ * (Res - f)) \div Res]
        ELSE os

\* a variant that also flattens the parent controller
set_oblateness_parent(os, nm, flattening) ==
    LET f == Max(0, Min(flattening, Res \div 4))
    IN  IF f > 0
        THEN [os EXCEPT ![nm].scale[3] = (@ * (Res - f)) \div Res,
                        ![os[nm].parent].scale[3] = (@ * (Res - f)) \div Res]
        ELSE os

\* set_oblateness
set_oblateness(os, nm, flattening) ==
    LET f == Max(0, Min(flattening, Res \div 4))
    IN  IF f > 0
        THEN [os EXCEPT ![nm].scale[3] = (@ * (Res - f)) \div Res]
        ELSE os

\* a variant that leaves the path duration as add_orbit_curve set it
animate_orbit_with_eval_time_keep(os, nm, fpr, start) ==
    LET o1 == FrameSet(os, start)
        o2 == [o1 EXCEPT ![nm].eval_time = 0,
                         ![nm].path = <<Track("eval_time", <<<<start, 0>>>>)>>]
        o3 == FrameSet(o2, start + fpr)
        k  == InsertKey(o3[nm].path[1].keys, start + fpr, fpr)
    IN  [o3 EXCEPT ![nm].eval_time = fpr,
                   ![nm].path = <<_linear_and_cycle(Track("eval_time", k))>>]

\* a variant that keys a normalised parameter 0 -> 1
animate_orbit_with_eval_time_unit(os, nm, fpr, start) ==
    LET o1 == FrameSet([os EXCEPT ![nm].path_duration = Max(2, fpr)], start)
        o2 == [o1 EXCEPT ![nm].eval_time = 0,
                         ![nm].path = <<Track("eval_time", <<<<start, 0>>>>)>>]
        o3 == FrameSet(o2, start + fpr)
        k  == InsertKey(o3[nm].path[1].keys, start + fpr, 1)
    IN  [o3 EXCEPT ![nm].eval_time = 1,
                   ![nm].path = <<_linear_and_cycle(Track("eval_time", k))>>]

\* animate_orbit_with_eval_time on the curve nm
animate_orbit_with_eval_time(os, nm, fpr, start) ==
    LET o1 == FrameSet([os EXCEPT ![nm].path_duration = Max(2, fpr)], start)
        o2 == [o1 EXCEPT ![nm].eval_time = 0,
                         ![nm].path = <<Track("eval_time", <<<<start, 0>>>>)>>]
        o3 == FrameSet(o2, start + fpr)
        k  == InsertKey(o3[nm].path[1].keys, start + fpr, fpr)
    IN  [o3 EXCEPT ![nm].eval_time = fpr,
                   ![nm].path = <<_linear_and_cycle(Track("eval_time", k))>>]

\* a variant that ignores the direction
animate_spin_prograde(os, nm, fpr, start, direction) ==
    LET o1 == FrameSet(os, start)
        o2 == [o1 EXCEPT ![nm].spin =
                  <<Track("rotation_euler[2]", <<<<start, o1[nm].rot[3]>>>>)>>]
        o3 == FrameSet(o2, start + Abs(fpr))
        v  == o3[nm].rot[3] + TwoPi
        k  == InsertKey(o3[nm].spin[1].keys, start + Abs(fpr), v)
    IN  [o3 EXCEPT ![nm].rot[3] = v,
                   ![nm].spin = <<_linear_and_cycle(Track("rotation_euler[2]", k))>>]

\* animate_spin on the object nm
animate_spin(os, nm, fpr, start, direction) ==
    LET o1 == FrameSet(os, start)
        o2 == [o1 EXCEPT ![nm].spin =
                  <<Track("rotation_euler[2]", <<<<start, o1[nm].rot[3]>>>>)>>]
        o3 == FrameSet(o2, start + Abs(fpr))
        v  == o3[nm].rot[3] + direction * TwoPi
        k  == InsertKey(o3[nm].spin[1].keys, start + Abs(fpr), v)
    IN  [o3 EXCEPT ![nm].rot[3] = v,
                   ![nm].spin = <<_linear_and_cycle(Track("rotation_euler[2]", k))>>]

\* a variant that parents the ring one level too high
add_rings_for_orbit(os, spin, inner, outer) ==
    LET nm == UniqueName(os, [pre |-> "Rings-", body |-> spin.body, n |-> spin.n])
        ring == [NewObj("MESH", "Active") EXCEPT
                    !.parent = os[spin].parent, !.loc = <<0, 0, 0>>,
                    !.rot = <<0, 0, 0>>, !.ring = <<inner, outer>>,
                    !.material = [pre |-> "Material-Rings-", body |-> spin.body,
                                  n |-> spin.n]]
    IN  [objs |-> os @@ (nm :> ring), ring |-> nm]

\* add_rings_for
add_rings_for(os, spin, inner, outer) ==
    LET nm == UniqueName(os, [pre |-> "Rings-", body |-> spin.body, n |-> spin.n])
        ring == [NewObj("MESH", "Active") EXCEPT
                    !.parent = spin, !.loc = <<0, 0, 0>>, !.rot = <<0, 0, 0>>,
                    !.ring = <<inner, outer>>,
                    !.material = [pre |-> "Material-Rings-", body |-> spin.body,
                                  n |-> spin.n]]
    IN  [objs |-> os @@ (nm :> ring), ring |-> nm]

----------------------------------------------------------------------------
(* The driver script (ImportPlanets.py) and the builders, step by step *)

NoMoon == [called |-> FALSE, primary |-> 0, err |-> "none"]
NoGaia == [pc |-> "off"]
NoTm   == [pc |-> "off", h1 |-> 0, h2 |-> 0, f1 |-> 0, f2 |-> 0, d1 |-> 0]
Cur    == catalog[idx]
Gen(o) == [o EXCEPT !.gen = runs + 1]

\* stamp the objects a step created with the current run
Stamp(old, new) ==
    [nm \in DOMAIN new |-> IF nm \in DOMAIN old THEN new[nm] ELSE Gen(new[nm])]

Init ==
    /\ \E sun \in SunPool, ps \in [1..NPlanets -> CfgPool] :
          catalog = <<sun>> \o ps
    /\ teardown \in {"clear_scene", "delete_grouped"}
    /\ data = <<>>
    /\ \E fs \in SUBSET ForeignPool : objs = SceneOf(fs)
    /\ colls = {"Scene"}
    /\ mats = <<>>
    /\ pc = "clear"
    /\ idx = 1
    /\ runs = 0
    /\ err = "none"
    /\ bundles = <<>>
    /\ snap = {}
    /\ moon = NoMoon
    /\ tm = NoTm
    /\ gaia = NoGaia

\* clear_scene (ImportPlanets.py): select all, delete, then remove the
\* meshes and after them the materials that have no users
ClearScene ==
    /\ pc = "clear" /\ teardown = "clear_scene"
    /\ objs' = Delete(objs, SelectAll(objs))
    /\ data' = RemoveUnusedMeshes(objs', data)
    /\ mats' = delete_unused_materials(mats, data')
    /\ pc' = "build"
    /\ idx' = 1
    /\ bundles' = <<>>
    /\ err' = "none"
    /\ moon' = NoMoon
    /\ UNCHANGED <<catalog, teardown, colls, runs, snap, tm, gaia>>

\* delete_grouped, delete_unused_materials, delete_unused_images
\* (SolarSystemOrbits.py)
DeleteGrouped ==
    /\ pc = "clear" /\ teardown = "delete_grouped"
    /\ objs' = Delete(objs, SelectPattern(objs))
    /\ mats' = delete_unused_materials(mats, data)
    /\ data' = delete_unused_images(mats', data)
    /\ pc' = "build"
    /\ idx' = 1
    /\ bundles' = <<>>
    /\ err' = "none"
    /\ moon' = NoMoon
    /\ UNCHANGED <<catalog, teardown, colls, runs, snap, tm, gaia>>

\* add_sun
AddSun ==
    /\ pc = "build" /\ idx <= Len(catalog) /\ IsSun(idx)
    /\ LET sun   == UniqueName(objs, Name("", "Sun"))
           mesh  == Block("MESH", sun, runs + 1)
           body  == [NewObj("MESH", "Active") EXCEPT
                        !.loc = Cur.location, !.radius = Cur.radius,
                        !.rot[1] = IF Cur.tilt_deg # 0
                                   THEN Radians(Cur.tilt_deg) ELSE @,
                        !.data = mesh]
           m     == make_transparent_sun_material(
                        mats, data @@ (mesh :> [material |-> NONE]),
                        Cur.texture, runs + 1)
           s1    == SetMaterial(objs @@ (sun :> body), m.data, sun, m.mat)
           o1    == link_to_collection(s1.objs, sun)
           light == UniqueName(o1, Name("", "SunInnerLight"))
           ldata == Block("LIGHT", light, runs + 1)
           lobj  == [NewObj("LIGHT", "Scene") EXCEPT
                        !.loc = Cur.location, !.data = ldata]
           o2    == link_to_collection(o1 @@ (light :> lobj), light)
       IN  /\ objs' = Stamp(objs, o2)
           /\ mats' = m.mats
           /\ data' = s1.data @@ (ldata :> [material |-> NONE])
    /\ colls' = colls \cup {SOLAR}
    /\ idx' = idx + 1
    /\ UNCHANGED <<catalog, teardown, pc, runs, err, bundles, snap, moon, tm, gaia>>

\* add_planet, lines 328-340: the orbit path
PlanetCurve ==
    /\ pc = "build" /\ idx <= Len(catalog) /\ ~IsSun(idx)
    /\ LET r == add_orbit_curve(objs, Name("Orbit-", Body(idx)),
                                Cur.orbit_radius, Cur.ecc,
                                Cur.inc, Cur.peri, Cur.asc)
           cu == Block("CURVE", r.curve, runs + 1)
           o  == [r.objs EXCEPT ![r.curve].data = cu]
       IN  /\ data' = data @@ (cu :> [material |-> NONE])
           /\ IF r.err = "none"
              THEN /\ objs' = Stamp(objs, link_to_collection(o, r.curve))
                   /\ colls' = colls \cup {SOLAR}
                   /\ bundles' = bundles @@ (idx :> [curve |-> r.curve])
                   /\ pc' = "p_orbit"
                   /\ UNCHANGED <<err, runs, snap>>
              ELSE /\ objs' = Stamp(objs, o)
                   /\ err' = r.err
                   /\ pc' = "aborted"
                   /\ runs' = runs + 1
                   /\ snap' = IF runs = 0 THEN Topology(objs') ELSE snap
                   /\ UNCHANGED <<colls, bundles>>
    /\ UNCHANGED <<catalog, teardown, mats, idx, moon, tm, gaia>>

\* add_planet, lines 342-349: the orbit controller
PlanetOrbit ==
    /\ pc = "p_orbit"
    /\ LET nm == UniqueName(objs, Name("OrbitCtrl-", Body(idx)))
           o1 == link_to_collection(
                    objs @@ (nm :> [NewObj("EMPTY", "Scene") EXCEPT
                                      !.loc = <<0, 0, 0>>,
                                      !.follow = bundles[idx].curve]), nm)
           o2 == animate_orbit_with_eval_time(o1, bundles[idx].curve,
                                              Cur.year_frames, 1)
       IN  /\ objs' = Stamp(objs, o2)
           /\ bundles' = [bundles EXCEPT ![idx] = @ @@ [orbit |-> nm]]
    /\ pc' = "p_spin"
    /\ UNCHANGED <<catalog, teardown, data, colls, mats, idx, runs, err, snap, moon, tm, gaia>>

\* add_planet, lines 351-363: the spin controller
PlanetSpin ==
    /\ pc = "p_spin"
    /\ LET nm == UniqueName(objs, Name("SpinCtrl-", Body(idx)))
           o1 == link_to_collection(
                    objs @@ (nm :> NewObj("EMPTY", "Scene")), nm)
           o2 == [o1 EXCEPT ![nm].parent = bundles[idx].orbit,
                            ![nm].rotmode = "ZXY",
                            ![nm].rot = <<Radians(Cur.tilt_deg), 0, 0>>]
           o3 == animate_spin(o2, nm, Cur.day_frames, 1, Cur.spin_dir)
       IN  /\ objs' = Stamp(objs, o3)
           /\ bundles' = [bundles EXCEPT ![idx] = @ @@ [spin |-> nm]]
    /\ pc' = "p_mesh"
    /\ UNCHANGED <<catalog, teardown, data, colls, mats, idx, runs, err, snap, moon, tm, gaia>>

\* a variant that also tilts the mesh
PlanetMesh_tilted ==
    /\ pc = "p_mesh"
    /\ LET nm == UniqueName(objs, Name("Planet-", Body(idx)))
           me == Block("MESH", nm, runs + 1)
           o1 == objs @@ (nm :> [NewObj("MESH", "Active") EXCEPT
                                    !.loc = <<0, 0, 0>>,
                                    !.radius = Cur.radius,
                                    !.parent = bundles[idx].spin,
                                    !.rot = <<Radians(Cur.tilt_deg), 0, 0>>,
                                    !.data = me])
       IN  /\ objs' = Stamp(objs, link_to_collection(o1, nm))
           /\ data' = data @@ (me :> [material |-> NONE])
           /\ bundles' = [bundles EXCEPT ![idx] = @ @@ [mesh |-> nm]]
    /\ pc' = "p_mat"
    /\ UNCHANGED <<catalog, teardown, colls, mats, idx, runs, err, snap, moon, tm, gaia>>

\* add_planet, lines 365-368: the planet mesh
PlanetMesh ==
    /\ pc = "p_mesh"
    /\ LET nm == UniqueName(objs, Name("Planet-", Body(idx)))
           me == Block("MESH", nm, runs + 1)
           o1 == objs @@ (nm :> [NewObj("MESH", "Active") EXCEPT
                                    !.loc = <<0, 0, 0>>,
                                    !.radius = Cur.radius,
                                    !.parent = bundles[idx].spin,
                                    !.data = me])
       IN  /\ objs' = Stamp(objs, link_to_collection(o1, nm))
           /\ data' = data @@ (me :> [material |-> NONE])
           /\ bundles' = [bundles EXCEPT ![idx] = @ @@ [mesh |-> nm]]
    /\ pc' = "p_mat"
    /\ UNCHANGED <<catalog, teardown, colls, mats, idx, runs, err, snap, moon, tm, gaia>>

\* add_planet, lines 370-372: the material
PlanetMaterial ==
    /\ pc = "p_mat"
    /\ LET m == make_planet_material(mats, data, Body(idx), Cur.texture,
                                     runs + 1)
           s == SetMaterial(objs, m.data, bundles[idx].mesh, m.mat)
       IN  IF m.err = "none"
           THEN /\ mats' = m.mats
                /\ data' = s.data
                /\ objs' = s.objs
                /\ pc' = "p_obl"
                /\ UNCHANGED <<err, runs, snap>>
           ELSE /\ mats' = m.mats
                /\ data' = m.data
                /\ err' = m.err
                /\ pc' = "aborted"
                /\ runs' = runs + 1
                /\ snap' = IF runs = 0 THEN Topology(objs) ELSE snap
                /\ UNCHANGED objs
    /\ UNCHANGED <<catalog, teardown, colls, idx, bundles, moon, tm, gaia>>

\* a variant that stores the clamped flattening back into the entry
PlanetOblateness_store ==
    /\ pc = "p_obl"
    /\ objs' = set_oblateness(objs, bundles[idx].mesh, Cur.flattening)
    /\ catalog' = [catalog EXCEPT ![idx].flattening = Max(0, Min(@, Res \div 4))]
    /\ pc' = "p_rings"
    /\ UNCHANGED <<teardown, data, colls, mats, idx, runs, err, bundles, snap, moon, tm, gaia>>

\* add_planet, lines 374-375: oblateness
PlanetOblateness ==
    /\ pc = "p_obl"
    /\ objs' = set_oblateness(objs, bundles[idx].mesh, Cur.flattening)
    /\ pc' = "p_rings"
    /\ UNCHANGED <<catalog, teardown, data, colls, mats, idx, runs, err, bundles, snap, moon, tm, gaia>>

\* add_planet, lines 377-385: optional rings, then the bundle is returned
PlanetRings ==
    /\ pc = "p_rings"
    /\ IF Cur.with_rings
       THEN LET r == add_rings_for(objs, bundles[idx].spin,
                                   Cur.rings_inner * Cur.radius,
                                   Cur.rings_outer * Cur.radius)
                me == Block("MESH", r.ring, runs + 1)
                o  == [r.objs EXCEPT ![r.ring].data = me]
            IN  /\ objs' = Stamp(objs, link_to_collection(o, r.ring))
                /\ mats' = make_ring_material(mats, o[r.ring].material)
                /\ data' = data @@ (me :> [material |-> o[r.ring].material])
       ELSE UNCHANGED <<objs, mats, data>>
    /\ idx' = idx + 1
    /\ pc' = "build"
    /\ UNCHANGED <<catalog, teardown, colls, runs, err, bundles, snap, moon, tm, gaia>>

\* end of the script, lines 271-275: frame_set(1), fps, view layer update
Finish ==
    /\ pc = "build" /\ idx > Len(catalog)
    /\ objs' = FrameSet(objs, 1)
    /\ pc' = "done"
    /\ runs' = runs + 1
    /\ snap' = IF runs = 0 THEN Topology(objs') ELSE snap
    /\ UNCHANGED <<catalog, teardown, data, colls, mats, idx, err, bundles, moon, tm, gaia>>

\* add_moon(bundles[p]): the call add_orbit_curve(..., radius=orbit_radius, ...)
\* on line 480 names a parameter add_orbit_curve does not have and omits
\* semi_major_axis, so Python raises TypeError before anything is created
AddMoon ==
    /\ pc = "done" /\ ~moon.called
    /\ \E p \in DOMAIN bundles :
          moon' = [called |-> TRUE, primary |-> p, err |-> "TypeError"]
    /\ UNCHANGED <<catalog, teardown, data, objs, colls, mats, pc, idx, runs, err, bundles,
                   snap, tm, gaia>>

\* the driver is run again
Rerun ==
    /\ pc \in {"done", "aborted"}
    /\ runs < MaxRebuilds
    /\ pc' = "clear"
    /\ UNCHANGED <<catalog, teardown, data, objs, colls, mats, idx, runs, err, bundles,
                   snap, moon, tm, gaia>>

Next ==
    \/ ClearScene
    \/ DeleteGrouped
    \/ AddSun
    \/ PlanetCurve
    \/ PlanetOrbit
    \/ PlanetSpin
    \/ PlanetMesh
    \/ PlanetMaterial
    \/ PlanetOblateness
    \/ PlanetRings
    \/ Finish
    \/ AddMoon
    \/ Rerun

Spec == Init /\ [][Next]_vars

----------------------------------------------------------------------------
(* Harness for the temporal mapper: two periods are drawn and mapped, as the
   catalog literals of ImportPlanets.py do for each planet *)
InitTemporal ==
    /\ catalog = <<SunCfg>>
    /\ teardown = "clear_scene"
    /\ data = <<>>
    /\ objs = SceneOf({})
    /\ colls = {"Scene"}
    /\ mats = <<>>
    /\ pc = "temporal"
    /\ idx = 1
    /\ runs = 0
    /\ err = "none"
    /\ bundles = <<>>
    /\ snap = {}
    /\ moon = NoMoon
    /\ gaia = NoGaia
    /\ \E a \in (-MaxHours)..MaxHours, b \in (-MaxHours)..MaxHours :
          tm = [pc |-> "in", h1 |-> a, h2 |-> b, f1 |-> 0, f2 |-> 0, d1 |-> 0]

MapPeriods ==
    /\ tm.pc = "in"
    /\ tm' = [tm EXCEPT !.pc = "out",
                        !.f1 = frames_for_day(tm.h1),
                        !.f2 = frames_for_day(tm.h2),
                        !.d1 = spin_dir(tm.h1)]
    /\ UNCHANGED <<catalog, teardown, data, objs, colls, mats, pc, idx, runs, err, bundles,
                   snap, moon, gaia>>

NextTemporal == MapPeriods

SpecTemporal == InitTemporal /\ [][NextTemporal]_vars

(* Harness for the orbit geometry: add_planet's first step on one body whose
   semi-major axis and eccentricity range over a grid *)
InitGeom ==
    /\ \E a \in (-1)..MaxA, e \in 0..(EccDen + 1) :
          catalog = <<SunCfg, Cfg(a, e, 0, 192, 1000, FALSE, 10, 0, "none")>>
    /\ teardown = "clear_scene"
    /\ data = <<>>
    /\ objs = SceneOf({})
    /\ colls = {"Scene"}
    /\ mats = <<>>
    /\ pc = "build"
    /\ idx = 2
    /\ runs = 0
    /\ err = "none"
    /\ bundles = <<>>
    /\ snap = {}
    /\ moon = NoMoon
    /\ tm = NoTm
    /\ gaia = NoGaia

NextGeom == PlanetCurve

SpecGeom == InitGeom /\ [][NextGeom]_vars

(* Harness for the orbit track: add_planet's first two steps on one body
   whose year_frames ranges over the small periods, the ones below the floor
   of the catalog included *)
MaxFpr == 60

InitOrbit ==
    /\ \E n \in 0..MaxFpr :
          catalog = <<SunCfg,
                      [Cfg(3, 2, 0, 192, 1000, FALSE, 10, 0, "none")
                          EXCEPT !.year_frames = n]>>
    /\ teardown = "clear_scene"
    /\ data = <<>>
    /\ objs = SceneOf({})
    /\ colls = {"Scene"}
    /\ mats = <<>>
    /\ pc = "build"
    /\ idx = 2
    /\ runs = 0
    /\ err = "none"
    /\ bundles = <<>>
    /\ snap = {}
    /\ moon = NoMoon
    /\ tm = NoTm
    /\ gaia = NoGaia

NextOrbit ==
    \/ PlanetCurve
    \/ PlanetOrbit

SpecOrbit == InitOrbit /\ [][NextOrbit]_vars

----------------------------------------------------------------------------
(* The batch download of query_gaia_solar_system.py (download_all_sso).
   The remote table is a set of observation rows; the epoch of a row is its
   index, so epochs are distinct. *)
NRows      == 4      \* rows of the remote table
BatchSize  == 3      \* TOP {batch_size}
MaxRetries == 1      \* failed queries the model follows

SourceIds     == 1..3
\* denomination 1 is in NAMES_LIST; the others are numbered minor planets,
\* which each query samples with RAND() < 0.05
Denominations == 1..2

\* the start of the cursor, below every source_id
LowestId == 0

Row(i, sid, den) == [sid |-> sid, den |-> den, epoch |-> i]
Named(r) == r.den = 1

\* the possible answers to one query: the first BatchSize rows, in source_id
\* order, of those that pass the WHERE clause; the order among rows of equal
\* source_id is not fixed by the query
Answers(table, last, sampled) ==
    LET elig == {r \in table : r.sid > last /\ (Named(r) \/ r \in sampled)}
        n    == Min(BatchSize, Cardinality(elig))
    IN  {B \in SUBSET elig :
            /\ Cardinality(B) = n
            /\ \A r \in B, q \in elig \ B : r.sid <= q.sid}

\* sort by denomination and epoch (descending), groupby(...).head(2)
Head2(df) ==
    {r \in df : Cardinality({q \in df : q.den = r.den /\ q.epoch > r.epoch}) < 2}

\* a variant without the filter
KeepNew_all(df, seen) == df

\* df[~df['denomination'].isin(seen)]
KeepNew(df, seen) == {r \in df : r.den \notin seen}

\* the rows of df in the order of the sort
RECURSIVE SortRows(_)
SortRows(S) ==
    IF S = {} THEN <<>>
    ELSE LET r == CHOOSE x \in S :
                    \A q \in S : q.den > x.den
                                  \/ (q.den = x.den /\ q.epoch <= x.epoch)
         IN  <<r>> \o SortRows(S \ {r})

\* df['source_id'].max() of a non-empty frame
MaxSourceId(S) == CHOOSE m \in {r.sid : r \in S} : \A r \in S : r.sid <= m

InitGaia ==
    /\ catalog = <<SunCfg>>
    /\ teardown = "clear_scene"
    /\ data = <<>>
    /\ objs = SceneOf({})
    /\ colls = {"Scene"}
    /\ mats = <<>>
    /\ pc = "gaia"
    /\ idx = 1
    /\ runs = 0
    /\ err = "none"
    /\ bundles = <<>>
    /\ snap = {}
    /\ moon = NoMoon
    /\ tm = NoTm
    /\ \E f \in [1..NRows -> SourceIds \X Denominations] :
          gaia = [pc |-> "query",
                  table |-> {Row(i, f[i][1], f[i][2]) : i \in 1..NRows},
                  last_id |-> LowestId, nan |-> FALSE, seen |-> {},
                  file |-> <<>>, first_batch |-> TRUE, total_rows |-> 0,
                  retries |-> 0]

Others == <<catalog, teardown, data, objs, colls, mats, pc, idx, runs, err,
            bundles, snap, moon, tm>>

\* lines 197-201: the query raises, the loop sleeps and tries again.  After
\* last_id has become NaN every query is of this kind.
QueryError ==
    /\ gaia.pc = "query"
    /\ gaia.retries < MaxRetries
    /\ gaia' = [gaia EXCEPT !.retries = @ + 1]
    /\ UNCHANGED Others

\* lines 203-205: an empty answer ends the loop
BatchEmpty ==
    /\ gaia.pc = "query" /\ ~gaia.nan
    /\ \E sampled \in SUBSET {r \in gaia.table : ~Named(r)} :
          {} \in Answers(gaia.table, gaia.last_id, sampled)
    /\ gaia' = [gaia EXCEPT !.pc = "done"]
    /\ UNCHANGED Others

\* lines 207-217: every object of the batch has been written before; the
\* cursor becomes the maximum of an empty column, which is NaN
BatchSeen ==
    /\ gaia.pc = "query" /\ ~gaia.nan
    /\ \E sampled \in SUBSET {r \in gaia.table : ~Named(r)} :
          \E B \in Answers(gaia.table, gaia.last_id, sampled) :
              /\ B # {}
              /\ KeepNew(Head2(B), gaia.seen) = {}
    /\ gaia' = [gaia EXCEPT !.nan = TRUE]
    /\ UNCHANGED Others

\* lines 207-224: the new rows are appended and the cursor moves to their
\* largest source_id
BatchWrite ==
    /\ gaia.pc = "query" /\ ~gaia.nan
    /\ \E sampled \in SUBSET {r \in gaia.table : ~Named(r)} :
          \E B \in Answers(gaia.table, gaia.last_id, sampled) :
              LET df == KeepNew(Head2(B), gaia.seen)
              IN  /\ B # {}
                  /\ df # {}
                  /\ gaia' = [gaia EXCEPT
                                !.seen = @ \cup {r.den : r \in df},
                                !.file = @ \o SortRows(df),
                                !.first_batch = FALSE,
                                !.total_rows = @ + Cardinality(df),
                                !.last_id = MaxSourceId(df)]
    /\ UNCHANGED Others

NextGaia ==
    \/ QueryError
    \/ BatchEmpty
    \/ BatchSeen
    \/ BatchWrite

SpecGaia == InitGaia /\ [][NextGaia]_vars

----------------------------------------------------------------------------
(* Properties *)

SystemNodes == {nm \in DOMAIN objs : objs[nm].gen > 0}

ExpectedParent(pre) ==
    IF pre = "SpinCtrl-" THEN "OrbitCtrl-" ELSE "SpinCtrl-"

NoDuplicate ==
    \A a \in SystemNodes, b \in SystemNodes :
        (a.pre = b.pre /\ a.body = b.body) => a = b

NoOrphan ==
    \A nm \in SystemNodes :
        nm.pre \in {"Planet-", "SpinCtrl-", "Rings-"} =>
            /\ objs[nm].parent \in SystemNodes
            /\ objs[nm].parent.pre = ExpectedParent(nm.pre)
            /\ objs[nm].parent.body = nm.body

\* the builder has acted on catalog entry i in the current run
Attempted(i) == pc # "clear" /\ (idx > i \/ (idx = i /\ pc # "build"))

\* add_planet has returned for catalog entry i in the current run
Built(i) == /\ i \in DOMAIN bundles
            /\ "mesh" \in DOMAIN bundles[i]
            /\ idx > i

Invalid(cfg) == cfg.ecc >= EccDen \/ cfg.orbit_radius <= 0

\* Python's round(num / den): round half to even
RoundHalfEven(num, den) ==
    LET q == num \div den
        r == num % den
    IN  IF 2 * r < den THEN q
        ELSE IF 2 * r > den THEN q + 1
        ELSE IF q % 2 = 0 THEN q ELSE q + 1

\* C1: rebuild idempotence.  When a second (or later) run of the rebuild has
\* ended, the scene has the same node names and parent links as after the
\* first run, no system node exists twice, and every system node that needs
\* a parent has the expected one.
C1_RebuildIdempotent ==
    (pc \in {"done", "aborted"} /\ runs >= 2) =>
        /\ Topology(objs) = snap
        /\ NoDuplicate
        /\ NoOrphan

C1_Witness ==
    /\ pc = "done" /\ runs >= 2
    /\ \E nm \in SystemNodes : nm.pre = "Rings-"
    /\ \E nm \in SystemNodes : nm.n > 0

\* C2: hierarchy invariant, as claimed.  Every body given a motion rig, a
\* planet built by add_planet or a satellite built by add_moon, has its
\* BodyNode under its SpinCarrier and its SpinCarrier under its OrbitCarrier.
C2_Hierarchy ==
    /\ \A i \in DOMAIN bundles :
          "mesh" \in DOMAIN bundles[i] =>
              /\ objs[bundles[i].mesh].parent = bundles[i].spin
              /\ objs[bundles[i].spin].parent = bundles[i].orbit
    /\ moon.called =>
          \E b \in DOMAIN objs, sp \in DOMAIN objs, o \in DOMAIN objs :
              /\ b.pre = "Moon-" /\ sp.pre = "SpinCtrl-" /\ o.pre = "OrbitCtrl-"
              /\ sp.body = "Moon" /\ o.body = "Moon"
              /\ objs[b].parent = sp
              /\ objs[sp].parent = o

\* C3: satellite parenting, as claimed.  A call of add_moon with the bundle
\* of a built primary completes, and the satellite's OrbitCarrier is a child
\* of the primary's OrbitCarrier and follows the satellite's own OrbitPath.
C3_SatelliteParenting ==
    moon.called =>
        /\ moon.err = "none"
        /\ \E o \in DOMAIN objs, c \in DOMAIN objs :
              /\ o.pre = "OrbitCtrl-" /\ o.body = "Moon"
              /\ c.pre = "Orbit-" /\ c.body = "Moon"
              /\ objs[o].parent = bundles[moon.primary].orbit
              /\ objs[o].follow = c

\* C4: rejected input, as claimed.  Once the builder has acted on a body
\* with e >= 1 or a <= 0, the outcome is a ConfigurationError.
C4_RejectedInput ==
    \A i \in 2..Len(catalog) :
        (Attempted(i) /\ Invalid(catalog[i])) => err = "ConfigurationError"

\* C5: frames_for_day(h) is at least the floor of 10 frames, and
\* |h1| <= |h2| implies frames_for_day(h1) <= frames_for_day(h2).
C5_FloorMonotone ==
    tm.pc = "out" =>
        /\ tm.f1 >= FLOOR_DAY_FRAMES
        /\ Abs(tm.h1) <= Abs(tm.h2) => tm.f1 <= tm.f2

C5_Witness ==
    /\ tm.pc = "out"
    /\ tm.h2 < 0 /\ Abs(tm.h1) < Abs(tm.h2)
    /\ FLOOR_DAY_FRAMES < tm.f1 /\ tm.f1 < tm.f2

\* C6: spin_dir(h) is -1 exactly when h < 0 and +1 otherwise; spin_dir(0) = +1.
C6_SpinDir ==
    tm.pc = "out" =>
        /\ tm.d1 \in {-1, 1}
        /\ tm.d1 = -1 <=> tm.h1 < 0
        /\ tm.h1 = 0 => tm.d1 = 1

C6_Witness == tm.pc = "out" /\ tm.h1 = 0 /\ tm.d1 = 1

\* C7, as claimed: frames_for_day(h) = max(10, round(120 * |h| / 24)).
C7_Rounded ==
    tm.pc = "out" =>
        tm.f1 = Max(FLOOR_DAY_FRAMES,
                    RoundHalfEven(EARTH_DAY_FRAMES * Abs(tm.h1), 192))

\* C7, amended: frames_for_day(h) = max(10, t) where t is the scaled period
\* 120 * |h| / 24 truncated toward zero: t <= 120 * |h| / 24 < t + 1.
C7_Truncated ==
    tm.pc = "out" =>
        LET x == EARTH_DAY_FRAMES * Abs(tm.h1)
        IN  /\ tm.f1 >= FLOOR_DAY_FRAMES
            /\ tm.f1 > FLOOR_DAY_FRAMES => (tm.f1 * 192 <= x /\ x < (tm.f1 + 1) * 192)
            /\ tm.f1 = FLOOR_DAY_FRAMES => x < (FLOOR_DAY_FRAMES + 1) * 192

C7_Witness ==
    /\ tm.pc = "out"
    /\ tm.f1 > FLOOR_DAY_FRAMES
    /\ tm.f1 # RoundHalfEven(EARTH_DAY_FRAMES * Abs(tm.h1), 192)

\* C8: oblateness isolation.  The set_oblateness step of add_planet changes
\* nothing but the scale of the body's own mesh node: every other node, the
\* body's OrbitCarrier and SpinCarrier included, keeps all its fields, and
\* the mesh node keeps everything except its scale.
C8_OblatenessIsolation ==
    [][(pc = "p_obl" /\ pc' = "p_rings") =>
          /\ DOMAIN objs' = DOMAIN objs
          /\ \A nm \in DOMAIN objs :
                IF nm = bundles[idx].mesh
                THEN [objs'[nm] EXCEPT !.scale = objs[nm].scale] = objs[nm]
                ELSE objs'[nm] = objs[nm]]_vars

C8_Witness ==
    /\ pc = "p_rings"
    /\ objs[bundles[idx].mesh].scale[3] < Res
    /\ objs[bundles[idx].spin].scale = <<Res, Res, Res>>

RingsOf(i) == {nm \in DOMAIN objs : nm.pre = "Rings-" /\ nm.body = Body(i)}

\* C9: ring construction.  A built body whose config requests rings has
\* exactly one ring node; it is a child of the body's SpinCarrier and not of
\* its mesh, its radii are rings_inner * radius and rings_outer * radius, and
\* it has no rotation and no animation of its own.  A built body that does
\* not request rings has no ring node.
C9_RingConstruction ==
    \A i \in 2..Len(catalog) :
        Built(i) =>
            IF catalog[i].with_rings
            THEN \E r \in RingsOf(i) :
                    /\ RingsOf(i) = {r}
                    /\ objs[r].parent = bundles[i].spin
                    /\ objs[r].parent # bundles[i].mesh
                    /\ objs[bundles[i].mesh].parent = objs[r].parent
                    /\ objs[r].ring = <<catalog[i].rings_inner * catalog[i].radius,
                                        catalog[i].rings_outer * catalog[i].radius>>
                    /\ objs[r].rot = <<0, 0, 0>>
                    /\ objs[r].spin = <<>>
            ELSE RingsOf(i) = {}

C9_Witness ==
    \E i \in 2..Len(catalog), j \in 2..Len(catalog) :
        /\ Built(i) /\ catalog[i].with_rings /\ RingsOf(i) # {}
        /\ Built(j) /\ ~catalog[j].with_rings

\* C10: for a > 0 and 0 <= e < 1 the path built by add_orbit_curve has major
\* radius a, its major axis unscaled, and a minor-axis scale s >= 0 that is
\* sqrt(1 - e^2) at the resolution of the arithmetic:
\* s^2 <= 1 - e^2 < (s + 1/Res)^2.
C10_MinorAxisScale ==
    \A i \in 2..Len(catalog) :
        (/\ idx = i /\ pc = "p_orbit"
         /\ catalog[i].orbit_radius > 0
         /\ catalog[i].ecc >= 0 /\ catalog[i].ecc < EccDen) =>
            LET c == objs[bundles[i].curve]
                s == c.scale[2]
                e == catalog[i].ecc
                t == (EccDen * EccDen - e * e) * Res * Res
            IN  /\ c.radius = catalog[i].orbit_radius
                /\ c.scale[1] = Res
                /\ c.scale[3] = Res
                /\ s >= 0
                /\ s * s * EccDen * EccDen <= t
                /\ t < (s + 1) * (s + 1) * EccDen * EccDen

C10_Witness ==
    /\ pc = "p_orbit"
    /\ catalog[idx].orbit_radius > 1
    /\ catalog[idx].ecc > 0 /\ catalog[idx].ecc < EccDen
    /\ objs[bundles[idx].curve].scale[2] < Res
    /\ objs[bundles[idx].curve].scale[2] > 0

\* data blocks and materials that no object, mesh or texture node refers to
Unreferenced ==
    {k \in DOMAIN data : BlockUsers(objs, mats, k) = 0}
        \cup {m \in DOMAIN mats : MatUsers(data, m) = 0}

\* the teardown step of the current run has finished and nothing is built yet
TornDown == pc = "build" /\ idx = 1

\* C11: resource reclamation, as claimed.  Once the teardown step at the
\* start of a rebuild has finished, no mesh, curve, light or image block and
\* no material made by an earlier run is left without a reference.
C11_Reclaimed ==
    TornDown => Unreferenced = {}

TeardownStep == pc = "clear" /\ pc' = "build"

Swept(nm) ==
    /\ ~objs[nm].hidden
    /\ \/ teardown = "clear_scene"
       \/ \E p \in Prefixes : StartsWith(nm, p)

NodesOf(i) ==
    {nm \in SystemNodes :
        nm.body = Body(i) \/ (IsSun(i) /\ nm.body \in SunLike)}

\* add_orbit_curve raises on this entry
Raises(cfg) == cfg.ecc > EccDen \/ cfg.orbit_radius = 0

\* the scene an aborted run leaves: nothing of the entries after idx, the
\* complete rigs of the entries before it, and the partial nodes of entry idx
AbortedShape ==
    /\ \A i \in (idx + 1)..Len(catalog) : NodesOf(i) = {}
    /\ \A i \in 1..(idx - 1) :
          IF IsSun(i)
          THEN \E a \in NodesOf(i), b \in NodesOf(i) :
                  objs[a].kind = "MESH" /\ objs[b].kind = "LIGHT"
          ELSE {bundles[i].curve, bundles[i].orbit,
                bundles[i].spin, bundles[i].mesh} \subseteq NodesOf(i)
    /\ NodesOf(idx) # {}
    /\ \A nm \in SystemNodes : objs[nm].gen = runs

\* C13: all-or-abort with later cleanup.  When the construction of entry
\* idx has failed, no node of a later entry exists, the nodes of the
\* earlier entries and the partial nodes of entry idx are in the scene; and
\* the teardown step that follows an aborted run leaves no system node.
C13_AbortThenCleanup ==
    /\ [](pc = "aborted" => AbortedShape)
    /\ [][(TeardownStep /\ err # "none") => SystemNodes' = {}]_vars

C13_Witness ==
    /\ TornDown /\ runs >= 1
    /\ ~Raises(catalog[2]) /\ Raises(catalog[Len(catalog)])
    /\ SystemNodes = {}

\* the material step of add_planet has been done for entry i in this run
MaterialDone(i) == (idx = i /\ pc \in {"p_obl", "p_rings"}) \/ Built(i)

\* add_sun has returned in this run
SunBuilt == pc # "clear" /\ idx > 1

SunMesh == CHOOSE nm \in NodesOf(1) : objs[nm].kind = "MESH"

\* the material m exists, has a plain colour of the given kind and no
\* texture node, and the mesh data of node nm carries it
PlainMaterial(nm, m, base) ==
    /\ m \in DOMAIN mats
    /\ mats[m].image = NOBLOCK
    /\ mats[m].base = base
    /\ objs[nm].material = m
    /\ data[objs[nm].data].material = m

\* C14: texture fallback.  When the texture of a body is absent or does not
\* load, the material step does not fail: the body's mesh carries a material
\* with the plain colour (the tint, for the primary) and no texture node,
\* and the builder goes on to the next step and the next entry.
C14_TextureFallback ==
    /\ [](\A i \in 2..Len(catalog) :
            (MaterialDone(i) /\ catalog[i].texture # "ok") =>
                PlainMaterial(bundles[i].mesh, Name("Material-", Body(i)),
                              "color"))
    /\ []((SunBuilt /\ catalog[1].texture # "ok") =>
            PlainMaterial(SunMesh, Name("Material-", "Sun"), "tint"))
    /\ [][(pc = "p_mat" => (pc' = "p_obl" /\ err' = "none"))
          /\ ((pc = "build" /\ idx = 1) => (pc' = "build" /\ idx' = 2))]_vars

C14_Witness ==
    /\ catalog[1].texture = "missing"
    /\ \E i \in 2..Len(catalog), j \in 2..Len(catalog) :
          /\ i < j /\ Built(i) /\ Built(j)
          /\ catalog[i].texture = "missing"
          /\ mats[objs[bundles[i].mesh].material].image = NOBLOCK
          /\ catalog[j].texture = "ok"
          /\ mats[objs[bundles[j].mesh].material].image # NOBLOCK

\* the system nodes of entry i whose name has the prefix pre
OfEntry(pre, i) == {nm \in SystemNodes : nm.pre = pre /\ nm.body = Body(i)}

\* C15: after a completed rebuild every non-primary catalog entry has
\* exactly one chain: one OrbitPath, one parentless OrbitCarrier that
\* follows it, one SpinCarrier under that carrier and one BodyNode with the
\* entry's name under the SpinCarrier; and every OrbitCarrier belongs to a
\* catalog entry.
C15_OneChainPerEntry ==
    pc = "done" =>
        /\ \A i \in 2..Len(catalog) :
              LET C == OfEntry("Orbit-", i)
                  O == OfEntry("OrbitCtrl-", i)
                  S == OfEntry("SpinCtrl-", i)
                  B == OfEntry("Planet-", i)
              IN  /\ Cardinality(C) = 1 /\ Cardinality(O) = 1
                  /\ Cardinality(S) = 1 /\ Cardinality(B) = 1
                  /\ \A o \in O : objs[o].parent = NONE /\ objs[o].follow \in C
                  /\ \A sp \in S : objs[sp].parent \in O
                  /\ \A n \in B : objs[n].parent \in S
        /\ \A nm \in SystemNodes :
              nm.pre = "OrbitCtrl-" =>
                  \E i \in 2..Len(catalog) : nm.body = Body(i)

C15_Witness ==
    /\ pc = "done" /\ runs >= 2
    /\ \A i \in 2..Len(catalog) : Built(i)
    /\ \E nm \in SystemNodes : nm.pre = "Orbit-" /\ nm.n > 0

\* C16: catalog immutability.  No step of the generation pass (teardown,
\* add_sun, the steps of add_planet, the final frame_set) adds, removes or
\* changes a key or a value of a catalog entry.
C16_CatalogImmutable ==
    [][/\ Len(catalog') = Len(catalog)
       /\ \A i \in 1..Len(catalog) :
             /\ DOMAIN catalog'[i] = DOMAIN catalog[i]
             /\ catalog'[i] = catalog[i]]_vars

C16_Witness ==
    /\ pc = "done" /\ runs = 1
    /\ \A i \in 2..Len(catalog) : Built(i)
    /\ \E i \in 2..Len(catalog) :
          /\ catalog[i].flattening > Res \div 4
          /\ objs[bundles[i].mesh].scale[3] = Res - Res \div 4

\* the positions of the output file that hold a row of denomination d
RowsOf(d) == {i \in 1..Len(gaia.file) : gaia.file[i].den = d}

\* C17: over the whole run of download_all_sso the output file holds at
\* most 2 rows of any denomination, and a batch never appends a row of a
\* denomination that an earlier batch has written.
C17_TwoRowsPerObject ==
    /\ [](gaia.pc # "off" =>
            \A d \in Denominations : Cardinality(RowsOf(d)) <= 2)
    /\ [][gaia.pc # "off" =>
            \A i \in (Len(gaia.file) + 1)..Len(gaia.file') :
                RowsOf(gaia.file'[i].den) = {}]_vars

C17_Witness ==
    /\ gaia.pc # "off" /\ gaia.nan
    /\ \E d \in Denominations :
          /\ Cardinality(RowsOf(d)) = 2
          /\ Cardinality({r \in gaia.table : r.den = d}) > 2
          /\ \E r \in gaia.table : r.den = d /\ r.sid > gaia.last_id

\* the rig of the built entry i holds the tilt on its SpinCarrier only
TiltOnSpin(i) ==
    /\ objs[bundles[i].spin].rot[1] = Radians(catalog[i].tilt_deg)
    /\ objs[bundles[i].spin].rot[2] = 0
    /\ objs[bundles[i].orbit].rot = <<0, 0, 0>>
    /\ objs[bundles[i].orbit].axisrots = <<>>
    /\ objs[bundles[i].mesh].rot = <<0, 0, 0>>
    /\ objs[bundles[i].mesh].axisrots = <<>>

\* the BodyNodes and OrbitCarriers among the system nodes
BodyNodes == {nm \in SystemNodes : objs[nm].kind = "MESH" /\ nm.pre # "Rings-"}
OrbitCarriers == {nm \in SystemNodes : nm.pre = "OrbitCtrl-"}

\* C18: tilt placement, as claimed.  A built planet holds its tilt as the X
\* rotation of its SpinCarrier, and no BodyNode and no OrbitCarrier of any
\* body has a rotation.
C18_TiltOnSpinOnly ==
    /\ \A i \in 2..Len(catalog) : Built(i) => TiltOnSpin(i)
    /\ \A nm \in BodyNodes \cup OrbitCarriers : objs[nm].rot = <<0, 0, 0>>

\* C18, amended.  A built planet holds its tilt as the X rotation of its
\* SpinCarrier, and its OrbitCarrier and BodyNode have no rotation; no
\* planet's tilt is on a BodyNode or an OrbitCarrier.  The primary, which
\* has no carriers, holds its tilt as the X rotation of its own mesh node.
C18_TiltPlacement ==
    /\ \A i \in 2..Len(catalog) : Built(i) => TiltOnSpin(i)
    /\ \A nm \in BodyNodes \cup OrbitCarriers :
          IF nm.pre = ""
          THEN objs[nm].rot = <<Radians(catalog[1].tilt_deg), 0, 0>>
          ELSE objs[nm].rot = <<0, 0, 0>>

C18_Witness ==
    /\ SunBuilt /\ objs[SunMesh].rot[1] > 0
    /\ \E i \in 2..Len(catalog) :
          /\ Built(i) /\ catalog[i].tilt_deg > 0
          /\ objs[bundles[i].spin].rot[1] > 0
          /\ objs[bundles[i].mesh].rot = <<0, 0, 0>>

\* set_oblateness has acted on the mesh of entry i in this run
Flattened(i) == (idx = i /\ pc = "p_rings") \/ Built(i)

\* C19: oblateness value.  After set_oblateness the mesh scale of a body is
\* (1, 1, 1 - f) with f the configured flattening clamped into [0, 1/4]:
\* (1, 1, 1) for a flattening <= 0, polar scale 1 - 1/4 for a flattening
\* above 1/4.
C19_OblatenessValue ==
    \A i \in 2..Len(catalog) :
        Flattened(i) =>
            LET fl == catalog[i].flattening
                sc == objs[bundles[i].mesh].scale
            IN  /\ sc[1] = Res /\ sc[2] = Res
                /\ fl <= 0 => sc[3] = Res
                /\ (fl > 0 /\ fl <= Res \div 4) => sc[3] = Res - fl
                /\ fl > Res \div 4 => sc[3] = Res - Res \div 4

C19_Witness ==
    \E i \in 2..Len(catalog), j \in 2..Len(catalog) :
        /\ Built(i) /\ Built(j)
        /\ catalog[i].flattening > Res \div 4
        /\ objs[bundles[i].mesh].scale[3] = Res - Res \div 4
        /\ catalog[j].flattening < 0
        /\ objs[bundles[j].mesh].scale = <<Res, Res, Res>>

\* animate_orbit_with_eval_time has returned for entry i in this run
PathAnimated(i) == i \in DOMAIN bundles /\ "orbit" \in DOMAIN bundles[i]

\* C20: orbit track.  The path of a body has exactly one animation track;
\* it is on the path parameter (eval_time) and has exactly two keyframes,
\* (start, 0) and (start + period_frames, period_frames), with start = 1.
C20_OrbitTrack ==
    \A i \in 2..Len(catalog) :
        PathAnimated(i) =>
            LET c  == objs[bundles[i].curve]
                pf == catalog[i].year_frames
            IN  /\ Len(c.path) = 1
                /\ c.spin = <<>>
                /\ c.path[1].prop = "eval_time"
                /\ c.path[1].keys = <<<<1, 0>>, <<1 + pf, pf>>>>

C20_Witness ==
    \E i \in 2..Len(catalog), j \in 2..Len(catalog) :
        /\ PathAnimated(i) /\ PathAnimated(j)
        /\ catalog[i].year_frames < EARTH_YEAR_FRAMES
        /\ catalog[j].year_frames > EARTH_YEAR_FRAMES
        /\ Len(objs[bundles[j].curve].path[1].keys) = 2

\* animate_spin has returned for entry i in this run
SpinAnimated(i) == i \in DOMAIN bundles /\ "spin" \in DOMAIN bundles[i]

\* C21: spin track.  The SpinCarrier of a body has exactly one animation
\* track; it is on the rotation about local Z and has exactly two keyframes,
\* (start, angle) and (start + period_frames, angle + direction * 2 pi),
\* with start = 1 and angle = 0, the Z rotation the carrier is created with.
C21_SpinTrack ==
    \A i \in 2..Len(catalog) :
        SpinAnimated(i) =>
            LET sp == objs[bundles[i].spin]
                pf == catalog[i].day_frames
                d  == catalog[i].spin_dir
            IN  /\ Len(sp.spin) = 1
                /\ sp.path = <<>>
                /\ sp.spin[1].prop = "rotation_euler[2]"
                /\ sp.spin[1].keys = <<<<1, 0>>, <<1 + pf, d * TwoPi>>>>

C21_Witness ==
    \E i \in 2..Len(catalog), j \in 2..Len(catalog) :
        /\ SpinAnimated(i) /\ SpinAnimated(j)
        /\ catalog[i].spin_dir = -1
        /\ objs[bundles[i].spin].spin[1].keys[2][2] = -TwoPi
        /\ catalog[j].spin_dir = 1
        /\ objs[bundles[j].spin].spin[1].keys[2][2] = TwoPi

\* a finished track: all keyframes linear, one cyclic wrap repeating both ways
LinearCyclic(t) ==
    /\ t.linear
    /\ t.cycles = 1
    /\ t.modes = <<<<"REPEAT", "REPEAT">>>>

\* C22: after a body is built its path has one track, on eval_time, and its
\* SpinCarrier has one track, on the Z rotation; both have linear
\* interpolation on every keyframe and exactly one cyclic wrap that repeats
\* before and after.  No other node made by the builders has a track, the
\* path has no rotation track and the SpinCarrier no path-parameter track.
C22_LinearCyclicOnly ==
    /\ \A i \in 2..Len(catalog) :
          Built(i) =>
              /\ Len(objs[bundles[i].curve].path) = 1
              /\ Len(objs[bundles[i].spin].spin) = 1
    /\ \A nm \in SystemNodes :
          /\ objs[nm].path # <<>> =>
                /\ nm.pre = "Orbit-"
                /\ objs[nm].path[1].prop = "eval_time"
                /\ LinearCyclic(objs[nm].path[1])
          /\ objs[nm].spin # <<>> =>
                /\ nm.pre = "SpinCtrl-"
                /\ objs[nm].spin[1].prop = "rotation_euler[2]"
                /\ LinearCyclic(objs[nm].spin[1])

C22_Witness ==
    /\ pc = "done"
    /\ \E i \in 2..Len(catalog) :
          /\ Built(i) /\ catalog[i].with_rings
          /\ LinearCyclic(objs[bundles[i].curve].path[1])
          /\ LinearCyclic(objs[bundles[i].spin].spin[1])
          /\ objs[bundles[i].mesh].spin = <<>>

\* the frames between the first and the last keyframe of a track
Span(t) == t.keys[Len(t.keys)][1] - t.keys[1][1]

\* C23: period floor.  For every body built from the catalog the orbit
\* track spans at least 60 frames and the spin track at least 10 frames, so
\* each track has two keyframes on distinct frames, the second after the
\* first.
C23_PeriodFloor ==
    \A i \in 2..Len(catalog) :
        /\ PathAnimated(i) =>
              LET t == objs[bundles[i].curve].path[1]
              IN  /\ catalog[i].year_frames >= FLOOR_YEAR_FRAMES
                  /\ Len(t.keys) = 2
                  /\ Span(t) = catalog[i].year_frames
                  /\ t.keys[1][1] < t.keys[2][1]
        /\ SpinAnimated(i) =>
              LET t == objs[bundles[i].spin].spin[1]
              IN  /\ catalog[i].day_frames >= FLOOR_DAY_FRAMES
                  /\ Len(t.keys) = 2
                  /\ Span(t) = catalog[i].day_frames
                  /\ t.keys[1][1] < t.keys[2][1]

C23_Witness ==
    \E i \in 2..Len(catalog) :
        /\ Built(i)
        /\ catalog[i].hours = 0
        /\ Span(objs[bundles[i].curve].path[1]) = FLOOR_YEAR_FRAMES
        /\ Span(objs[bundles[i].spin].spin[1]) = FLOOR_DAY_FRAMES

\* add_orbit_curve has returned for catalog entry i in the current run
PathMade(i) == i \in DOMAIN bundles /\ "curve" \in DOMAIN bundles[i]

\* C24: orientation order.  From the return of add_orbit_curve on, the path
\* of a body has the Euler mode XYZ, a rotation that was reset to zero, and
\* exactly three axis rotations applied to it, in this order: about Z by the
\* ascending-node longitude, about X by the inclination, about Z by the
\* argument of periapsis, each converted from degrees to radians; no later
\* step of the build adds a rotation.
C24_OrientationOrder ==
    \A i \in 2..Len(catalog) :
        PathMade(i) =>
            LET c == objs[bundles[i].curve]
            IN  /\ c.rotmode = "XYZ"
                /\ c.rot = <<0, 0, 0>>
                /\ Len(c.axisrots) = 3
                /\ c.axisrots[1] = <<"Z", Radians(catalog[i].asc)>>
                /\ c.axisrots[2] = <<"X", Radians(catalog[i].inc)>>
                /\ c.axisrots[3] = <<"Z", Radians(catalog[i].peri)>>

C24_Witness ==
    /\ pc = "done"
    /\ \E i \in 2..Len(catalog) :
          /\ Built(i)
          /\ objs[bundles[i].curve].axisrots[1][2] # objs[bundles[i].curve].axisrots[3][2]
          /\ objs[bundles[i].curve].axisrots[2][2] > 0

\* C25: group registration.  Every node that add_sun or add_planet has
\* created is a member of the collection 'Solar System' and of no other
\* collection, and no second collection of the system exists beside it.
C25_GroupRegistration ==
    /\ \A nm \in SystemNodes : objs[nm].users = {SOLAR}
    /\ colls \subseteq {"Scene", SOLAR}

\* a batch that was not empty has been handled and the loop goes on
BatchHandled ==
    /\ gaia.pc = "query"
    /\ gaia'.pc = "query"
    /\ gaia'.retries = gaia.retries
    /\ gaia' # gaia

\* C26: the cursor advances.  After every batch that was not empty, the
\* batches whose objects have all been written before included, last_id is
\* the source_id of a row of the table and is greater than it was, so the
\* loop cannot ask the same query for ever and reaches the empty batch.
C26_CursorAdvances ==
    [][BatchHandled =>
          /\ ~gaia'.nan
          /\ gaia'.last_id \in {r.sid : r \in gaia.table}
          /\ gaia'.last_id > gaia.last_id]_vars

\* C27: one revolution per period.  For every integer frames_per_revolution
\* of at least 2, after animate_orbit_with_eval_time the duration of the path
\* equals the value of the second keyframe of the path parameter, the first
\* keyframe has the value 0, and the two keyframes are frames_per_revolution
\* frames apart.
C27_OneRevolution ==
    \A i \in 2..Len(catalog) :
        (PathAnimated(i) /\ catalog[i].year_frames >= 2) =>
            LET c == objs[bundles[i].curve]
                t == c.path[1]
            IN  /\ Len(t.keys) = 2
                /\ t.keys[1][2] = 0
                /\ t.keys[2][2] = c.path_duration
                /\ Span(t) = catalog[i].year_frames
                /\ c.path_duration = catalog[i].year_frames

C27_Witness ==
    /\ PathAnimated(2)
    /\ catalog[2].year_frames = 2
    /\ objs[bundles[2].curve].path_duration = 2
    /\ objs[bundles[2].curve].path[1].keys = <<<<1, 0>>, <<3, 2>>>>

====
